---------------------------- MODULE Spec2Model ----------------------------
(***************************************************************************)
(* Battery Devices Monitor (Geek-MD/Battery_Devices_Monitor): the battery  *)
(* classification of entity states (utils.py), the monitor sensor          *)
(* (sensor.py), the config entry life cycle and its services (__init__.py) *)
(* and the config flow (config_flow.py).                                   *)
(*                                                                         *)
(* Conventions.  Python strings are TLA+ strings, handled with Len, SubSeq *)
(* and \o.  A Python float is a fixed-point number counted in tenths       *)
(* (19.5 is 195).  A Python value of unknown type (an attribute value) is  *)
(* a record [type, v].  None is the record NoneValue.                      *)
(***************************************************************************)
EXTENDS Integers, Sequences, FiniteSets, TLC

VARIABLES
    probe,      \* SpecClassify: the entity state handed to the classifiers
    verdict,    \* SpecClassify: what the classifiers returned for probe
    states,     \* hass.states: entity number -> State record or NoState
    options,    \* config_entry.options of the entry the sensor was built for
    sensor,     \* the fields of BatteryMonitorSensor
    scan,       \* the locals of the last async_update
    fired,      \* the events the last async_update fired on hass.bus
    changes,    \* the state changes since the last async_update
    flows,      \* SpecEntry: the config flows of the integration
    entries,    \* SpecEntry: the config entries of the integration
    hass,       \* SpecEntry: hass.data[DOMAIN], the platforms and the services
    call        \* SpecService: the last service call, its data and its outcome

vars == <<probe, verdict, states, options, sensor, scan, fired, changes, flows, entries, hass,
          call>>

grid == <<probe, verdict, call>>

monitor == <<states, options, sensor, scan, fired, changes>>

life == <<flows, entries, hass>>

\* --------------------------------------------------------------------------
(* Python values *)

NoneValue == [type |-> "none"]
Str(s) == [type |-> "str", v |-> s]
Num(n) == [type |-> "num", v |-> n]
Obj == [type |-> "object"]          \* a list, a dict: float() raises TypeError

\* One unit of the fixed-point floats is 1/Scale.
Scale == 10

\* --------------------------------------------------------------------------
(* The host: its entity, device and area registries (fixed tables) and its *)
(* state machine (the variable states).                                    *)

Entities == 1..3

\* The entities the host may hold, with the friendly_name attributes their
\* states may carry.
EntityTable ==
    << [entity_id |-> "sensor.door_battery",   friendly_names |-> {"Door Battery"}],
       [entity_id |-> "sensor.door_battery_2", friendly_names |-> {"Door Battery 2"}],
       [entity_id |-> "binary_sensor.window",  friendly_names |-> {"door", "Front window"}] >>

\* entity_reg.async_get(entity_id): the entry, or None
entity_reg_async_get(entity_id) ==
    CASE entity_id = "sensor.door_battery"   -> [type |-> "entry", device_id |-> Str("dev_door")]
      [] entity_id = "sensor.door_battery_2" -> [type |-> "entry", device_id |-> Str("dev_door")]
      [] entity_id = "sensor.lock_battery"   -> [type |-> "entry", device_id |-> Str("dev_lock")]
      [] entity_id = "sensor.battery_devices_monitor_battery_monitor_status" ->
             [type |-> "entry", device_id |-> Str("dev_monitor")]
      [] entity_id = "sensor.hub_battery"    -> [type |-> "entry", device_id |-> Str("dev_monitor")]
      [] entity_id = "sensor.panel_battery"  -> [type |-> "entry", device_id |-> Str("dev_panel")]
      [] entity_id = "sensor.tablet_battery" -> [type |-> "entry", device_id |-> Str("dev_tablet")]
      [] OTHER -> NoneValue

\* device_reg.async_get(device_id): the entry, or None
device_reg_async_get(device_id) ==
    CASE device_id = "dev_door" ->
             [ type |-> "entry", identifiers |-> { <<"zha", "00:11">> },
               name_by_user |-> NoneValue, name |-> Str("Door"), area_id |-> Str("hall") ]
      [] device_id = "dev_lock" ->
             [ type |-> "entry", identifiers |-> { <<"zwave_js", "7">> },
               name_by_user |-> Str("door"), name |-> Str("Lock 7"), area_id |-> NoneValue ]
      [] device_id = "dev_monitor" ->     \* the sensor's own device, renamed by the user
             [ type |-> "entry", identifiers |-> { <<"battery_devices_monitor", "1">> },
               name_by_user |-> Str("Hub"), name |-> Str("Battery Devices Monitor"),
               area_id |-> Str("hall") ]
      [] device_id = "dev_panel" ->
             [ type |-> "entry", identifiers |-> { <<"zha", "00:22">> },
               name_by_user |-> Str("Panel of the Battery Devices Monitor"),
               name |-> Str("Panel"), area_id |-> NoneValue ]
      [] device_id = "dev_tablet" ->
             [ type |-> "entry", identifiers |-> { <<"zha", "00:33">>, <<"mqtt", "battery_devices_monitor">> },
               name_by_user |-> Str("Tablet"), name |-> Str("Battery Devices Monitor Tablet"),
               area_id |-> NoneValue ]
      [] OTHER -> NoneValue

\* area_reg.async_get_area(area_id): the entry, or None
area_reg_async_get_area(area_id) ==
    CASE area_id = "hall" -> [type |-> "entry", name |-> Str("Hall")]
      [] OTHER -> NoneValue

DeviceIds == { "dev_door", "dev_lock", "dev_monitor", "dev_panel", "dev_tablet" }

AreaIds == { "hall" }

\* The entity ids the classifiers are probed with.
ProbeIds ==
    { "sensor.door_battery", "sensor.door_power", "binary_sensor.lock",
      "automation.battery_check", "sensor.battery_devices_monitor_status" }


\* The value of a str, "" for None.
TextOf(value) == IF value.type = "str" THEN value.v ELSE ""

\* The strings of the host: its entity ids and the names it gives.
Texts ==
    { EntityTable[i].entity_id : i \in 1..Len(EntityTable) }
      \cup UNION { EntityTable[i].friendly_names : i \in 1..Len(EntityTable) }
      \cup { TextOf(device_reg_async_get(d).name) : d \in DeviceIds }
      \cup { TextOf(device_reg_async_get(d).name_by_user) : d \in DeviceIds }
      \cup { TextOf(area_reg_async_get_area(a).name) : a \in AreaIds }
      \cup ProbeIds

\* --------------------------------------------------------------------------
(* Python string methods *)

CharAt(s, i) == SubSeq(s, i, i)

StartsWith(s, prefix) ==
    /\ Len(prefix) <= Len(s)
    /\ SubSeq(s, 1, Len(prefix)) = prefix

\* sub in s
Contains(s, sub) ==
    \E i \in 1..(Len(s) - Len(sub) + 1) : SubSeq(s, i, i + Len(sub) - 1) = sub

UpperChars == "ABCDEFGHIJKLMNOPQRSTUVWXYZ"
LowerChars == "abcdefghijklmnopqrstuvwxyz"

LowerChar(c) ==
    IF \E i \in 1..Len(UpperChars) : CharAt(UpperChars, i) = c
    THEN CharAt(LowerChars, CHOOSE i \in 1..Len(UpperChars) : CharAt(UpperChars, i) = c)
    ELSE c

RECURSIVE LowerOf(_)
LowerOf(s) == IF s = "" THEN "" ELSE LowerChar(CharAt(s, 1)) \o LowerOf(SubSeq(s, 2, Len(s)))

\* LowerOf on the strings of the host, computed once.
LowerTable == [ s \in Texts |-> LowerOf(s) ]

\* s.lower()
Lower(s) == IF s \in Texts THEN LowerTable[s] ELSE LowerOf(s)

\* s.split(".")[0]
RECURSIVE SplitFirst(_, _)
SplitFirst(s, sep) ==
    IF s = "" \/ CharAt(s, 1) = sep THEN ""
    ELSE CharAt(s, 1) \o SplitFirst(SubSeq(s, 2, Len(s)), sep)

\* The characters in code point order, for the comparison of strings.
CodePoints == " ()-.0123456789ABCDEFGHIJKLMNOPQRSTUVWXYZ_abcdefghijklmnopqrstuvwxyz"

CodePoint(c) == CHOOSE i \in 1..Len(CodePoints) : CharAt(CodePoints, i) = c

RECURSIVE StrLessOf(_, _)
StrLessOf(a, b) ==
    IF b = "" THEN FALSE
    ELSE IF a = "" THEN TRUE
    ELSE IF CharAt(a, 1) # CharAt(b, 1)
         THEN CodePoint(CharAt(a, 1)) < CodePoint(CharAt(b, 1))
    ELSE StrLessOf(SubSeq(a, 2, Len(a)), SubSeq(b, 2, Len(b)))

LowerTexts == { LowerTable[s] : s \in Texts }

\* StrLessOf on the lower-cased strings of the host, computed once.
StrLessTable == [ a \in LowerTexts |-> { b \in LowerTexts : StrLessOf(a, b) } ]

\* a < b on str
StrLess(a, b) ==
    IF a \in LowerTexts /\ b \in LowerTexts THEN b \in StrLessTable[a] ELSE StrLessOf(a, b)

\* --------------------------------------------------------------------------
(* float(): the conversions get_battery_level relies on *)

\* What Float gives where Python raises ValueError or TypeError: no float.
NoFloat == -999999

Digits == "0123456789"

IsDigit(c) == \E i \in 1..Len(Digits) : CharAt(Digits, i) = c

DigitValue(c) == (CHOOSE i \in 1..Len(Digits) : CharAt(Digits, i) = c) - 1

AllDigits(s) == s # "" /\ \A i \in 1..Len(s) : IsDigit(CharAt(s, i))

RECURSIVE DecimalValue(_)
DecimalValue(s) ==
    IF s = "" THEN 0
    ELSE 10 * DecimalValue(SubSeq(s, 1, Len(s) - 1)) + DigitValue(CharAt(s, Len(s)))

\* float(s) of an unsigned decimal literal "ddd" or "ddd.d"
UnsignedFloat(s) ==
    IF AllDigits(s) THEN Scale * DecimalValue(s)
    ELSE IF /\ Len(s) >= 3
            /\ CharAt(s, Len(s) - 1) = "."
            /\ AllDigits(SubSeq(s, 1, Len(s) - 2))
            /\ IsDigit(CharAt(s, Len(s)))
         THEN Scale * DecimalValue(SubSeq(s, 1, Len(s) - 2)) + DigitValue(CharAt(s, Len(s)))
    ELSE NoFloat

\* float(s) of a string: a decimal literal with an optional sign, or ValueError
ParseFloat(s) ==
    IF s # "" /\ CharAt(s, 1) = "-"
    THEN LET u == UnsignedFloat(SubSeq(s, 2, Len(s)))
         IN  IF u = NoFloat THEN NoFloat ELSE 0 - u
    ELSE UnsignedFloat(s)

\* float(value): the number, or NoFloat where Python raises ValueError or TypeError
Float(value) ==
    CASE value.type = "num" -> value.v
      [] value.type = "str" -> ParseFloat(value.v)
      [] OTHER -> NoFloat

\* round(x) of a float: to the nearest integer, a tie to the even one
Round(x) ==
    LET floor == x \div Scale
        frac  == x % Scale
    IN  IF 2 * frac < Scale THEN floor
        ELSE IF 2 * frac > Scale THEN floor + 1
        ELSE IF floor % 2 = 0 THEN floor ELSE floor + 1

\* --------------------------------------------------------------------------
(* const.py *)

\* DOMAIN (a reserved word of TLA+)
DOMAIN_NAME == "battery_devices_monitor"

DEFAULT_BATTERY_THRESHOLD == 20

BATTERY_ATTRS == <<"battery_level", "battery", "Battery">>

\* Imported by utils.py and named by should_exclude_entity's docstring.
EXCLUDED_ENTITY_DOMAINS == {"automation", "scene", "script"}

STATE_OK == "OK"
STATE_PROBLEM == "Problem"

EVENT_BATTERY_LOW == "battery_devices_monitor_low_battery"
EVENT_BATTERY_UNAVAILABLE == "battery_devices_monitor_battery_unavailable"

EXCLUDED_NAME_PATTERN == "Battery Devices Monitor"

\* --------------------------------------------------------------------------
(* utils.py: the classification of one entity state.  A State is a record  *)
(* [entity_id, state, attributes]; attributes is a function whose domain   *)
(* is the set of the keys present.                                         *)

HasAttr(state, key) == key \in DOMAIN state.attributes

\* state.attributes.get(key): None when the key is absent
AttrGet(state, key) == IF HasAttr(state, key) THEN state.attributes[key] ELSE NoneValue

should_exclude_entity(state) ==
    IF StartsWith(state.entity_id, "sensor." \o DOMAIN_NAME) THEN TRUE
    ELSE LET entity_domain ==
                 IF Contains(state.entity_id, ".")
                 THEN SplitFirst(state.entity_id, ".") ELSE ""
         IN  entity_domain \in EXCLUDED_ENTITY_DOMAINS

\* get_battery_level's None: no float.
NoLevel == -888888

\* A variant that tries the attributes in the reverse order.
RECURSIVE BatteryLevelReversed(_, _)
BatteryLevelReversed(state, i) ==
    IF i <= Len(BATTERY_ATTRS)
    THEN LET battery_value == AttrGet(state, BATTERY_ATTRS[Len(BATTERY_ATTRS) + 1 - i])
         IN  IF battery_value.type # "none" /\ Float(battery_value) # NoFloat
             THEN Float(battery_value)
             ELSE BatteryLevelReversed(state, i + 1)
    ELSE IF Contains(Lower(state.entity_id), "battery")
         THEN LET potential_level == ParseFloat(state.state)
              IN  IF /\ potential_level # NoFloat
                     /\ 0 <= potential_level
                     /\ potential_level <= 100 * Scale
                  THEN potential_level ELSE NoLevel
    ELSE NoLevel

\* The loop over BATTERY_ATTRS from index i on: the first attribute that is
\* not None and converts; then the heuristic on the state value.
RECURSIVE BatteryLevelFrom(_, _)
BatteryLevelFrom(state, i) ==
    IF i <= Len(BATTERY_ATTRS)
    THEN LET battery_value == AttrGet(state, BATTERY_ATTRS[i])
         IN  IF battery_value.type # "none" /\ Float(battery_value) # NoFloat
             THEN Float(battery_value)
             ELSE BatteryLevelFrom(state, i + 1)
    ELSE IF Contains(Lower(state.entity_id), "battery")
         THEN LET potential_level == ParseFloat(state.state)
              IN  IF /\ potential_level # NoFloat
                     /\ 0 <= potential_level
                     /\ potential_level <= 100 * Scale
                  THEN potential_level ELSE NoLevel
    ELSE NoLevel

\* A variant that forgets should_exclude_entity.
get_battery_level_of_any(state) == BatteryLevelFrom(state, 1)

get_battery_level(state) ==
    IF should_exclude_entity(state) THEN NoLevel ELSE BatteryLevelFrom(state, 1)

\* A variant without the heuristic on the entity id.
has_battery_attribute_key(state) ==
    IF should_exclude_entity(state) THEN FALSE
    ELSE \E i \in 1..Len(BATTERY_ATTRS) : HasAttr(state, BATTERY_ATTRS[i])

has_battery_attribute(state) ==
    IF should_exclude_entity(state) THEN FALSE
    ELSE IF \E i \in 1..Len(BATTERY_ATTRS) : HasAttr(state, BATTERY_ATTRS[i]) THEN TRUE
    ELSE Contains(Lower(state.entity_id), "battery")

is_battery_device(state) == get_battery_level(state) # NoLevel

has_battery_but_unavailable(state) ==
    IF ~has_battery_attribute(state) THEN FALSE
    ELSE IF get_battery_level(state) # NoLevel THEN FALSE
    ELSE TRUE

\* --------------------------------------------------------------------------
(* The classification of one entity state, for every state of a grid of    *)
(* entity ids, state values and attribute dictionaries.                    *)

ProbeStateValues == { "unavailable", "-1", "0", "19.5", "100", "101" }

ProbeAttrValues ==
    { NoneValue, Str("unknown"), Str("55"), Num(195), Num(1500), Obj }

AttrKeys == { BATTERY_ATTRS[i] : i \in 1..Len(BATTERY_ATTRS) }

\* Every dictionary over the keys of K with values of V.
Dicts(K, V) == UNION { [D -> V] : D \in SUBSET K }

ProbeStates ==
    [ entity_id : ProbeIds, state : ProbeStateValues,
      attributes : Dicts(AttrKeys, ProbeAttrValues) ]

NotEvaluated == [evaluated |-> FALSE]

Classify ==
    /\ ~verdict.evaluated
    /\ verdict' = [ evaluated |-> TRUE,
                    battery_level |-> get_battery_level(probe),
                    is_battery_device |-> is_battery_device(probe),
                    has_battery_attribute |-> has_battery_attribute(probe),
                    has_battery_but_unavailable |-> has_battery_but_unavailable(probe) ]
    /\ UNCHANGED <<probe, call, monitor, life>>


\* --------------------------------------------------------------------------
(* The host: the states of its entities *)

\* What the host reports of an entity: its state value and battery attributes.
BatteryReadings ==
    { [state |-> "20",          attributes |-> <<>>],
      [state |-> "unavailable", attributes |-> [battery_level |-> NoneValue]],
      [state |-> "on",          attributes |-> [battery |-> Num(125)]] }

\* The attributes of a reading with a friendly_name.
Named(attributes, friendly_name) ==
    [ k \in (DOMAIN attributes) \cup {"friendly_name"} |->
        IF k = "friendly_name" THEN Str(friendly_name) ELSE attributes[k] ]

\* The readings of entity e: each battery reading under each of its names.
Readings(e) ==
    { [state |-> r.state, attributes |-> Named(r.attributes, n)] :
        r \in BatteryReadings, n \in EntityTable[e].friendly_names }

\* The State object of entity e with reading r.
StateOf(e, r) ==
    [ entity_id |-> EntityTable[e].entity_id, state |-> r.state, attributes |-> r.attributes ]

\* The orders in which hass.states.async_all() may list the states.
Orders == { o \in [Entities -> Entities] : \A e \in Entities : \E i \in Entities : o[i] = e }

\* hass.states.async_all(), listed in order o
async_all(o) == [ i \in Entities |-> states[o[i]] ]

\* --------------------------------------------------------------------------
(* utils.py: the device of an entity, and the two scans *)

\* bool(value) of None or a str
Truthy(value) == value.type = "str" /\ value.v # ""

\* a or b
PyOr(a, b) == IF Truthy(a) THEN a ELSE b

NoDeviceInfo == [device_name |-> NoneValue, device_id |-> NoneValue, area_name |-> NoneValue]

\* A variant that does not check the fallback name.
DeviceInfoFallbackUnchecked(state, device_name, device_id, area_name) ==
    LET name == IF ~Truthy(device_name)
                THEN IF HasAttr(state, "friendly_name")
                     THEN state.attributes["friendly_name"] ELSE Str(state.entity_id)
                ELSE device_name
    IN  [device_name |-> name, device_id |-> device_id, area_name |-> area_name]

\* get_device_info from line 168 on: the fallback name and its check
DeviceInfoFallback(state, device_name, device_id, area_name) ==
    LET name == IF ~Truthy(device_name)
                THEN IF HasAttr(state, "friendly_name")
                     THEN state.attributes["friendly_name"] ELSE Str(state.entity_id)
                ELSE device_name
    IN  IF Truthy(name) /\ Contains(name.v, EXCLUDED_NAME_PATTERN) THEN NoDeviceInfo
        ELSE [device_name |-> name, device_id |-> device_id, area_name |-> area_name]

get_device_info(state) ==
    LET entity_entry == entity_reg_async_get(state.entity_id)
    IN  IF entity_entry.type # "none" /\ Truthy(entity_entry.device_id)
        THEN LET device_id == entity_entry.device_id
                 device_entry == device_reg_async_get(device_id.v)
             IN  IF device_entry.type # "none"
                 THEN IF \E identifier \in device_entry.identifiers : identifier[1] = DOMAIN_NAME
                      THEN NoDeviceInfo
                      ELSE LET device_name == PyOr(device_entry.name_by_user, device_entry.name)
                               area_entry ==
                                   IF Truthy(device_entry.area_id)
                                   THEN area_reg_async_get_area(device_entry.area_id.v)
                                   ELSE NoneValue
                               area_name ==
                                   IF area_entry.type # "none" THEN area_entry.name ELSE NoneValue
                           IN  IF Truthy(device_name)
                                  /\ Contains(device_name.v, EXCLUDED_NAME_PATTERN)
                               THEN NoDeviceInfo
                               ELSE DeviceInfoFallback(state, device_name, device_id, area_name)
                 ELSE DeviceInfoFallback(state, NoneValue, device_id, NoneValue)
        ELSE DeviceInfoFallback(state, NoneValue, NoneValue, NoneValue)

\* What utils.py gives for one state.
FactsOf(state) ==
    [ battery_level |-> get_battery_level(state),
      is_battery_device |-> is_battery_device(state),
      has_battery_but_unavailable |-> has_battery_but_unavailable(state),
      device_info |-> get_device_info(state) ]

\* The states the host can hold, and FactsOf on them, computed once.
KnownStates == UNION { { StateOf(e, r) : r \in Readings(e) } : e \in Entities }

FactsTable == [ state \in KnownStates |-> FactsOf(state) ]

Facts(state) == IF state \in KnownStates THEN FactsTable[state] ELSE FactsOf(state)

\* unique_key = device_id if device_id else state.entity_id
UniqueKey(state, info) == IF Truthy(info.device_id) THEN info.device_id.v ELSE state.entity_id

\* A dict is the sequence of its items in insertion order, each a record
\* holding its key.
HasKey(dict, key) == \E i \in 1..Len(dict) : dict[i].key = key

Lookup(dict, key) == dict[CHOOSE i \in 1..Len(dict) : dict[i].key = key]

\* dict[key] = item: in place when the key is there, at the end otherwise
Store(dict, item) ==
    IF HasKey(dict, item.key)
    THEN [ i \in 1..Len(dict) |-> IF dict[i].key = item.key THEN item ELSE dict[i] ]
    ELSE Append(dict, item)

\* A variant that keeps the lower level: battery_level < existing_level
ReplacesWhenLower(battery_level, existing_level) == battery_level < existing_level

\* battery_level > existing_level
ReplacesExisting(battery_level, existing_level) == battery_level > existing_level

\* The body of get_all_battery_devices' loop for one state.
BatteryDevicesStep(battery_devices, state) ==
    IF ~Facts(state).is_battery_device THEN battery_devices
    ELSE LET battery_level == Facts(state).battery_level
             info == Facts(state).device_info
             unique_key == UniqueKey(state, info)
             item == [ key |-> unique_key,
                       name |-> info.device_name.v,
                       entity_id |-> state.entity_id,
                       area |-> info.area_name,
                       battery_level |-> battery_level ]
         IN  IF battery_level = NoLevel THEN battery_devices
             ELSE IF info.device_name.type = "none" THEN battery_devices
             ELSE IF HasKey(battery_devices, unique_key)
                  THEN IF ReplacesExisting(battery_level,
                                           Lookup(battery_devices, unique_key).battery_level)
                       THEN Store(battery_devices, item)
                       ELSE battery_devices
             ELSE Store(battery_devices, item)

RECURSIVE BatteryDevicesLoop(_, _, _)
BatteryDevicesLoop(all_states, i, battery_devices) ==
    IF i > Len(all_states) THEN battery_devices
    ELSE BatteryDevicesLoop(all_states, i + 1,
                            BatteryDevicesStep(battery_devices, all_states[i]))

get_all_battery_devices(all_states) == BatteryDevicesLoop(all_states, 1, <<>>)

\* The body of get_devices_without_battery_info's loop for one state.
WithoutInfoStep(devices_without_info, state) ==
    IF ~Facts(state).has_battery_but_unavailable THEN devices_without_info
    ELSE LET info == Facts(state).device_info
             unique_key == UniqueKey(state, info)
         IN  IF info.device_name.type = "none" THEN devices_without_info
             ELSE IF ~HasKey(devices_without_info, unique_key)
                  THEN Store(devices_without_info,
                             [ key |-> unique_key,
                               name |-> info.device_name.v,
                               area |-> info.area_name,
                               entity_id |-> state.entity_id ])
             ELSE devices_without_info

RECURSIVE WithoutInfoLoop(_, _, _)
WithoutInfoLoop(all_states, i, devices_without_info) ==
    IF i > Len(all_states) THEN devices_without_info
    ELSE WithoutInfoLoop(all_states, i + 1,
                         WithoutInfoStep(devices_without_info, all_states[i]))

get_devices_without_battery_info(all_states) == WithoutInfoLoop(all_states, 1, <<>>)


\* --------------------------------------------------------------------------
(* sensor.py: BatteryMonitorSensor *)

Unset == [type |-> "unset"]
List(s) == [type |-> "list", v |-> s]

CONF_BATTERY_THRESHOLD == "battery_threshold"
CONF_EXCLUDED_DEVICES == "excluded_devices"

DEFAULT_EXCLUDED_DEVICES == List({})

\* The options an entry may carry: each key set or not.  The threshold is a
\* float, the excluded devices are device keys.
OptionChoices ==
    [ battery_threshold : { Unset, Num(12 * Scale), Num(25 * Scale) },
      excluded_devices : { Unset, List({"dev_door"}), List({"binary_sensor.window"}) } ]

\* self._config_entry.options.get(key, default)
OptionsGet(opts, key, default) == IF opts[key].type = "unset" THEN default ELSE opts[key]

\* BatteryMonitorSensor.__init__
NewSensor ==
    [ state |-> STATE_OK,
      devices_below_threshold |-> <<>>,
      devices_above_threshold |-> <<>>,
      devices_without_battery_info |-> <<>>,
      devices_without_battery_info_status |-> STATE_OK,
      total_devices |-> 0,
      excluded_devices |-> <<>>,
      previous_low_devices |-> {},
      previous_unavailable_devices |-> {} ]

NoScan == [ran |-> FALSE]

\* a < b on tuples of str of the same length
RECURSIVE StrTupleLess(_, _)
StrTupleLess(a, b) ==
    IF a = <<>> THEN FALSE
    ELSE IF StrLess(Head(a), Head(b)) THEN TRUE
    ELSE IF StrLess(Head(b), Head(a)) THEN FALSE
    ELSE StrTupleLess(Tail(a), Tail(b))

\* A variant whose key forgets the level.
LevelKeyLessByName(a, b) == StrTupleLess(Tail(a), Tail(b))

\* a < b on tuples (int, str, str)
LevelKeyLess(a, b) == a[1] < b[1] \/ (a[1] = b[1] /\ StrTupleLess(Tail(a), Tail(b)))

\* a < b on tuples (str, str)
NameKeyLess(a, b) == StrTupleLess(a, b)

\* a < b on the keys of one sort: tuples of the same shape
KeyLess(a, b) == IF Len(a) = 3 THEN LevelKeyLess(a, b) ELSE NameKeyLess(a, b)

\* sorted(list, key=...), keys[i] being the key of list[i].  The sort is
\* stable: an item comes after those of a smaller key and those of an equal
\* key that precede it in list.
Sorted(list, keys) ==
    LET n == Len(list)
        Before(j, i) ==
            \/ KeyLess(keys[j], keys[i])
            \/ ~KeyLess(keys[i], keys[j]) /\ j < i
        Rank(i) == Cardinality({ j \in 1..n : Before(j, i) }) + 1
    IN  [ k \in 1..n |-> list[CHOOSE i \in 1..n : Rank(i) = k] ]

\* (x["area"] or "").lower()
AreaKey(area) == Lower(PyOr(area, Str("")).v)

\* lambda x: (x["battery_level"], x["name"].lower(), (x["area"] or "").lower())
LevelSortKey(x) == <<x.battery_level, Lower(x.name), AreaKey(x.area)>>

\* lambda x: (x["name"].lower(), (x["area"] or "").lower())
NameSortKey(x) == <<Lower(x.name), AreaKey(x.area)>>

\* The keys of the items of list, for the two sorts.
LevelSortKeys(list) == [ i \in 1..Len(list) |-> LevelSortKey(list[i]) ]

NameSortKeys(list) == [ i \in 1..Len(list) |-> NameSortKey(list[i]) ]

\* device_key in excluded_devices
IsExcluded(device_key, excluded_devices) == device_key \in excluded_devices.v

\* A variant that is not strict: device_data["battery_level"] <= threshold
BelowOrAtThreshold(battery_level, threshold) == battery_level <= threshold.v

\* device_data["battery_level"] < threshold
BelowThreshold(battery_level, threshold) == battery_level < threshold.v

\* The display info of a device with a level.
DeviceInfo(device_data) ==
    [ name |-> device_data.name,
      area |-> device_data.area,
      battery_level |-> Round(device_data.battery_level) ]

\* The display info of an excluded device, or of one without battery info.
NameAndArea(device_data) == [name |-> device_data.name, area |-> device_data.area]

\* display_name: the name, with the area when there is one
DisplayName(device_data) ==
    IF Truthy(device_data.area)
    THEN device_data.name \o " (" \o device_data.area.v \o ")"
    ELSE device_data.name

\* devices_below_info as the set of its values (its keys are their entity_id)
DevicesBelowInfo(all_devices, threshold, excluded_devices) ==
    { [ name |-> DisplayName(all_devices[i]),
        battery_level |-> Round(all_devices[i].battery_level),
        entity_id |-> all_devices[i].entity_id ] :
      i \in { j \in 1..Len(all_devices) :
                /\ ~IsExcluded(all_devices[j].key, excluded_devices)
                /\ BelowThreshold(all_devices[j].battery_level, threshold) } }

\* unavailable_devices_event_data as the set of its values
UnavailableEventData(all_devices_without_info, excluded_devices) ==
    { [ name |-> DisplayName(all_devices_without_info[i]),
        entity_id |-> all_devices_without_info[i].entity_id ] :
      i \in { j \in 1..Len(all_devices_without_info) :
                ~IsExcluded(all_devices_without_info[j].key, excluded_devices) } }

\* The events of one update: one for each entity of new_low_devices and one
\* for each of new_unavailable_devices.
LowEvents(devices_below_info, previous_low_devices, threshold) ==
    { [ event_type |-> EVENT_BATTERY_LOW,
        entity_id |-> d.entity_id,
        name |-> d.name,
        battery_level |-> d.battery_level,
        threshold |-> threshold.v ] :
      d \in { x \in devices_below_info : x.entity_id \notin previous_low_devices } }

UnavailableEvents(event_data, previous_unavailable_devices) ==
    { [ event_type |-> EVENT_BATTERY_UNAVAILABLE,
        entity_id |-> d.entity_id,
        name |-> d.name ] :
      d \in { x \in event_data : x.entity_id \notin previous_unavailable_devices } }

\* A variant that leaves self._state as __init__ set it.
SensorStateUnset(devices_below_threshold) == STATE_OK

\* self._state
SensorState(devices_below_threshold) ==
    IF devices_below_threshold # <<>> THEN STATE_PROBLEM ELSE STATE_OK

\* self._devices_without_battery_info_status
WithoutInfoStatus(devices_without_info) ==
    IF devices_without_info # <<>> THEN STATE_PROBLEM ELSE STATE_OK

\* The first loop of async_update: the three lists of display infos.
ExcludedDevicesInfo(all_devices, excluded_devices) ==
    LET Excluded(d) == IsExcluded(d.key, excluded_devices)
        kept == SelectSeq(all_devices, Excluded)
    IN  [ i \in 1..Len(kept) |-> NameAndArea(kept[i]) ]

DevicesBelowThreshold(all_devices, threshold, excluded_devices) ==
    LET Below(d) == /\ ~IsExcluded(d.key, excluded_devices)
                    /\ BelowThreshold(d.battery_level, threshold)
        kept == SelectSeq(all_devices, Below)
    IN  [ i \in 1..Len(kept) |-> DeviceInfo(kept[i]) ]

DevicesAboveThreshold(all_devices, threshold, excluded_devices) ==
    LET Above(d) == /\ ~IsExcluded(d.key, excluded_devices)
                    /\ ~BelowThreshold(d.battery_level, threshold)
        kept == SelectSeq(all_devices, Above)
    IN  [ i \in 1..Len(kept) |-> DeviceInfo(kept[i]) ]

\* A variant of the second loop without the check of excluded_devices.
DevicesWithoutInfoUnfiltered(all_devices_without_info, excluded_devices) ==
    [ i \in 1..Len(all_devices_without_info) |-> NameAndArea(all_devices_without_info[i]) ]

\* The second loop of async_update: the list of display infos.
DevicesWithoutInfo(all_devices_without_info, excluded_devices) ==
    LET Kept(d) == ~IsExcluded(d.key, excluded_devices)
        kept == SelectSeq(all_devices_without_info, Kept)
    IN  [ i \in 1..Len(kept) |-> NameAndArea(kept[i]) ]

\* The keys of the devices the first loop finds below the threshold.
LowKeys(all_devices, threshold, excluded_devices) ==
    { all_devices[i].key :
        i \in { j \in 1..Len(all_devices) :
                  /\ ~IsExcluded(all_devices[j].key, excluded_devices)
                  /\ BelowThreshold(all_devices[j].battery_level, threshold) } }

\* BatteryMonitorSensor.async_update, the host listing its states in order o.
\* Each local is bound once, in the order the code assigns them.
async_update(o) ==
    \E threshold \in
         { OptionsGet(options, CONF_BATTERY_THRESHOLD, Num(DEFAULT_BATTERY_THRESHOLD * Scale)) },
       excluded_devices \in
         { OptionsGet(options, CONF_EXCLUDED_DEVICES, DEFAULT_EXCLUDED_DEVICES) },
       all_devices \in { get_all_battery_devices(async_all(o)) },
       all_devices_without_info \in { get_devices_without_battery_info(async_all(o)) } :
    \E excluded_devices_info \in { ExcludedDevicesInfo(all_devices, excluded_devices) },
       devices_below_threshold \in
         { DevicesBelowThreshold(all_devices, threshold, excluded_devices) },
       devices_above_threshold \in
         { DevicesAboveThreshold(all_devices, threshold, excluded_devices) },
       devices_below_info \in { DevicesBelowInfo(all_devices, threshold, excluded_devices) },
       devices_without_info \in { DevicesWithoutInfo(all_devices_without_info, excluded_devices) },
       unavailable_devices_event_data \in
         { UnavailableEventData(all_devices_without_info, excluded_devices) } :
    \E current_low_devices \in { { d.entity_id : d \in devices_below_info } },
       current_unavailable_devices \in
         { { d.entity_id : d \in unavailable_devices_event_data } } :
        /\ sensor' =
              [ state |-> SensorState(devices_below_threshold),
                devices_below_threshold |->
                    Sorted(devices_below_threshold, LevelSortKeys(devices_below_threshold)),
                devices_above_threshold |->
                    Sorted(devices_above_threshold, LevelSortKeys(devices_above_threshold)),
                excluded_devices |->
                    Sorted(excluded_devices_info, NameSortKeys(excluded_devices_info)),
                devices_without_battery_info |->
                    Sorted(devices_without_info, NameSortKeys(devices_without_info)),
                devices_without_battery_info_status |-> WithoutInfoStatus(devices_without_info),
                total_devices |-> Len(devices_below_threshold) + Len(devices_above_threshold)
                                    + Len(devices_without_info),
                previous_low_devices |-> current_low_devices,
                previous_unavailable_devices |-> current_unavailable_devices ]
        /\ fired' = LowEvents(devices_below_info, sensor.previous_low_devices, threshold)
                      \cup UnavailableEvents(unavailable_devices_event_data,
                                             sensor.previous_unavailable_devices)
        /\ scan' = [ ran |-> TRUE,
                     threshold |-> threshold,
                     excluded_devices |-> excluded_devices,
                     all_devices |-> all_devices,
                     all_devices_without_info |-> all_devices_without_info,
                     devices_below_threshold |-> devices_below_threshold,
                     devices_above_threshold |-> devices_above_threshold,
                     excluded_devices_info |-> excluded_devices_info,
                     devices_without_info |-> devices_without_info,
                     previous_low_devices |-> sensor.previous_low_devices,
                     low_keys |-> LowKeys(all_devices, threshold, excluded_devices),
                     previous_low_keys |-> IF scan.ran THEN scan.low_keys ELSE {} ]

\* --------------------------------------------------------------------------
(* The sensor in its host *)

HostStates == { s \in [Entities -> KnownStates] :
                  \A e \in Entities : s[e].entity_id = EntityTable[e].entity_id }

\* The hosts that hold entities of the monitor itself: entity 1 is the door's
\* battery sensor, entities 2 and 3 are two of: the monitor's sensor, an
\* entity with the prefix of its id, an entity of its device, an entity of a
\* device named after it, an entity with a friendly name after it, and an
\* entity of a device that only its maker named after it.  Each reports a
\* level of 15 or none.
MonitorHostStates ==
    LET names ==
            [ id \in { "sensor.battery_devices_monitor_battery_monitor_status",
                       "sensor.battery_devices_monitor_level", "sensor.hub_battery",
                       "sensor.panel_battery", "sensor.kiosk_battery",
                       "sensor.tablet_battery" } |->
                CASE id = "sensor.battery_devices_monitor_battery_monitor_status" ->
                         "Hub Battery Monitor Status"
                  [] id = "sensor.battery_devices_monitor_level" -> "Level"
                  [] id = "sensor.hub_battery" -> "Hub Battery"
                  [] id = "sensor.panel_battery" -> "Panel Battery"
                  [] id = "sensor.kiosk_battery" -> "Kiosk Battery Devices Monitor"
                  [] OTHER -> "Tablet Battery" ]
        own == { [ entity_id |-> id, state |-> r.state,
                   attributes |-> Named(r.attributes, names[id]) ] :
                 id \in DOMAIN names,
                 r \in { [state |-> "15", attributes |-> [battery |-> Num(15 * Scale)]],
                         [state |-> "unavailable",
                          attributes |-> [battery_level |-> NoneValue]] } }
    IN  { s \in [Entities -> KnownStates \cup own] :
            /\ s[1] \in { StateOf(1, r) : r \in Readings(1) }
            /\ s[2] \in own /\ s[3] \in own
            /\ s[2].entity_id # s[3].entity_id }

\* The state changes the host makes before a scheduled update runs.
MaxBurst == 1

\* The host sets a new state of entity e.
StateChanged ==
    \E e \in Entities :
    \E r \in Readings(e) :
      /\ changes < MaxBurst
      /\ StateOf(e, r) # states[e]
      /\ states' = [states EXCEPT ![e] = StateOf(e, r)]
      /\ changes' = changes + 1
      /\ UNCHANGED <<grid, options, sensor, scan, fired, life>>

\* The host runs the sensor's update: scheduled by _handle_state_change, or
\* polled.
AsyncUpdate ==
    \E o \in Orders :
      /\ async_update(o)
      /\ changes' = 0
      /\ UNCHANGED <<grid, states, options, life>>

\* The options flow saves new options: async_reload_entry unloads the entry
\* and sets it up again, with a new BatteryMonitorSensor.
ReloadEntry ==
    \E new \in OptionChoices :
      /\ new # options
      /\ options' = new
      /\ sensor' = NewSensor
      /\ scan' = NoScan
      /\ fired' = {}
      /\ changes' = 0
      /\ UNCHANGED <<grid, states, life>>

\* --------------------------------------------------------------------------
(* config_flow.py and __init__.py: the config flows, the config entries    *)
(* they create, and the set-up, unloading and reloading of an entry with   *)
(* the services it registers.  The host gives the entry a flow creates an  *)
(* entry_id of its own: here the number of the flow.                       *)

\* The config flows the host runs.
NumFlows == 3

Flows == 1..NumFlows

\* The update listeners an entry may collect.
MaxListeners == 2

\* The services async_setup_entry registers.
SERVICES == { "get_low_battery_devices", "get_devices_without_battery_info" }

\* What the forms of the flow may hand in.
ThresholdInputs == { Num(DEFAULT_BATTERY_THRESHOLD * Scale), Num(12 * Scale) }

ExcludedInputs == { {}, {"dev_door"} }

\* A flow before its first step.
NewFlow ==
    [ result |-> "none", step_id |-> "", errors |-> "", threshold |-> NoneValue,
      unique_id |-> NoneValue, already_configured |-> FALSE ]

NoEntry == [exists |-> FALSE]

\* async_step_user without user_input: the form of the threshold
ShowUserForm(flow) == [flow EXCEPT !.result = "form", !.step_id = "user", !.errors = ""]

\* async_step_exclude_devices without user_input: the form of the devices
ShowExcludeDevicesForm(flow) ==
    [flow EXCEPT !.result = "form", !.step_id = "exclude_devices", !.errors = ""]

\* The except branch of async_step_exclude_devices: the form, with an error
ShowExcludeDevicesError(flow) ==
    [flow EXCEPT !.result = "form", !.step_id = "exclude_devices", !.errors = "unknown"]

\* self._abort_if_unique_id_configured() raises AbortFlow: an entry of the
\* integration has the flow's unique id
AbortFlowRaised(unique_id, config_entries) ==
    \E e \in Flows : config_entries[e].exists /\ config_entries[e].unique_id = unique_id

\* async_step_exclude_devices with user_input.  AbortFlow is an Exception
\* raised inside the try block: the except branch catches it.
SubmitExcludeDevicesResult(flow, config_entries) ==
    LET with_id == [flow EXCEPT !.unique_id = Str(DOMAIN_NAME)]
    IN  IF AbortFlowRaised(DOMAIN_NAME, config_entries)
        THEN [ShowExcludeDevicesError(with_id) EXCEPT !.already_configured = TRUE]
        ELSE [with_id EXCEPT !.result = "create_entry", !.errors = ""]

\* The host starts flow f: async_step_user(None).
StartFlow ==
    \E f \in Flows :
      /\ flows[f].result = "none"
      /\ flows' = [flows EXCEPT ![f] = ShowUserForm(@)]
      /\ UNCHANGED <<entries, hass, grid, monitor>>

\* The user submits the threshold: async_step_user(user_input), which goes
\* on to async_step_exclude_devices(None).
SubmitUser ==
    \E f \in Flows, threshold \in ThresholdInputs :
      /\ flows[f].result = "form"
      /\ flows[f].step_id = "user"
      /\ flows' = [flows EXCEPT ![f] = ShowExcludeDevicesForm([@ EXCEPT !.threshold = threshold])]
      /\ UNCHANGED <<entries, hass, grid, monitor>>

\* The user submits the devices to exclude: async_step_exclude_devices(user_input).
SubmitExcludeDevices ==
    \E f \in Flows, excluded \in ExcludedInputs :
      /\ flows[f].result = "form"
      /\ flows[f].step_id = "exclude_devices"
      /\ flows' = [flows EXCEPT ![f] = SubmitExcludeDevicesResult(@, entries)]
      /\ entries' =
           IF flows'[f].result = "create_entry"
           THEN [entries EXCEPT ![f] =
                   [ exists |-> TRUE,
                     unique_id |-> flows'[f].unique_id.v,
                     options |-> [ battery_threshold |-> flows[f].threshold,
                                   excluded_devices |-> List(excluded) ],
                     state |-> "not_loaded" ]]
           ELSE entries
      /\ UNCHANGED <<hass, grid, monitor>>

\* hass, before the integration was ever set up.
NewHass ==
    [ data |-> {},                                  \* the keys of hass.data[DOMAIN]
      platforms |-> {},                             \* the entries whose sensor platform is set up
      services |-> {},                              \* the services registered under DOMAIN
      update_listeners |-> [e \in Flows |-> 0],     \* the update listeners of each entry
      returned |-> FALSE ]                          \* what the last call returned

\* async_setup_entry; forward_ok: async_forward_entry_setups does not raise
async_setup_entry(h, e, forward_ok) ==
    IF forward_ok
    THEN [h EXCEPT !.data = @ \cup {e},
                   !.platforms = @ \cup {e},
                   !.update_listeners[e] = @ + 1,
                   !.services = @ \cup SERVICES,
                   !.returned = TRUE]
    ELSE [h EXCEPT !.data = @ \cup {e}, !.returned = FALSE]

\* if not hass.data[DOMAIN]: the two async_remove
ServicesAfterUnload(data, services) == IF data = {} THEN services \ SERVICES ELSE services

\* async_unload_entry; unload_ok: what async_unload_platforms returns
async_unload_entry(h, e, unload_ok) ==
    IF unload_ok
    THEN [h EXCEPT !.platforms = @ \ {e},
                   !.data = @ \ {e},
                   !.services = ServicesAfterUnload(h.data \ {e}, @),
                   !.returned = TRUE]
    ELSE [h EXCEPT !.returned = FALSE]

\* async_reload_entry
async_reload_entry(h, e, unload_ok, forward_ok) ==
    async_setup_entry(async_unload_entry(h, e, unload_ok), e, forward_ok)

\* The host sets up an entry that is not loaded.
SetupEntry ==
    \E e \in Flows, forward_ok \in BOOLEAN :
      /\ entries[e].exists
      /\ entries[e].state \in {"not_loaded", "setup_error"}
      /\ hass' = async_setup_entry(hass, e, forward_ok)
      /\ entries' = [entries EXCEPT ![e].state = IF hass'.returned THEN "loaded"
                                                 ELSE "setup_error"]
      /\ UNCHANGED <<flows, grid, monitor>>

\* The host unloads a loaded entry; when that succeeds it runs the entry's
\* on_unload callbacks, which remove its update listeners.
UnloadEntry ==
    \E e \in Flows, unload_ok \in BOOLEAN :
      /\ entries[e].exists
      /\ entries[e].state = "loaded"
      /\ \E h \in { async_unload_entry(hass, e, unload_ok) } :
           /\ hass' = IF h.returned THEN [h EXCEPT !.update_listeners[e] = 0] ELSE h
           /\ entries' = [entries EXCEPT ![e].state = IF h.returned THEN "not_loaded"
                                                      ELSE "failed_unload"]
      /\ UNCHANGED <<flows, grid, monitor>>

\* The options of a loaded entry were updated and the host calls one of its
\* update listeners: async_reload_entry.
ReloadListener ==
    \E e \in Flows, unload_ok \in BOOLEAN, forward_ok \in BOOLEAN :
      /\ entries[e].exists
      /\ entries[e].state = "loaded"
      /\ hass.update_listeners[e] > 0
      /\ hass.update_listeners[e] < MaxListeners
      /\ hass' = async_reload_entry(hass, e, unload_ok, forward_ok)
      /\ UNCHANGED <<flows, entries, grid, monitor>>

\* The user deletes an entry that is not loaded.
RemoveEntry ==
    \E e \in Flows :
      /\ entries[e].exists
      /\ entries[e].state \in {"not_loaded", "setup_error"}
      /\ entries' = [entries EXCEPT ![e] = NoEntry]
      /\ hass' = [hass EXCEPT !.update_listeners[e] = 0]
      /\ UNCHANGED <<flows, grid, monitor>>

\* --------------------------------------------------------------------------
(* The two query services (__init__.py) *)

ATTR_DEVICES_BELOW_THRESHOLD == "devices_below_threshold"
ATTR_DEVICES_WITHOUT_BATTERY_INFO == "devices_without_battery_info"

\* The entity id the host gives the sensor: the slug of the device's name and
\* of SENSOR_NAME, the entity having _attr_has_entity_name.
MONITOR_ENTITY_ID == "sensor.battery_devices_monitor_battery_monitor_status"

\* BatteryMonitorSensor.extra_state_attributes, the keys that const.py defines:
\* each list as a list of dicts of Python values, a level being an int.
extra_state_attributes(self) ==
    LET LevelDicts(list) ==
            List([ i \in 1..Len(list) |->
                     [ name |-> Str(list[i].name),
                       area |-> list[i].area,
                       battery_level |-> Num(Scale * list[i].battery_level) ] ])
        NameDicts(list) ==
            List([ i \in 1..Len(list) |->
                     [ name |-> Str(list[i].name), area |-> list[i].area ] ])
    IN  [ devices_below_threshold |-> LevelDicts(self.devices_below_threshold),
          devices_above_threshold |-> LevelDicts(self.devices_above_threshold),
          total_monitored_devices |-> Num(Scale * self.total_devices),
          excluded_devices |-> NameDicts(self.excluded_devices),
          devices_without_battery_info |-> NameDicts(self.devices_without_battery_info) ]

\* The state the host holds of the sensor, once written.
MonitorState(self) ==
    [ entity_id |-> MONITOR_ENTITY_ID,
      state |-> self.state,
      attributes |-> extra_state_attributes(self) ]

\* A variant of the host in which every entity id has a state.
states_get_any(host_states, self, entity_id) ==
    IF entity_id = MONITOR_ENTITY_ID THEN MonitorState(self)
    ELSE IF \E e \in Entities : host_states[e].entity_id = entity_id
         THEN host_states[CHOOSE e \in Entities : host_states[e].entity_id = entity_id]
    ELSE host_states[CHOOSE e \in Entities : TRUE]

\* hass.states.get(entity_id): the state, or None when the host has none
states_get(host_states, self, entity_id) ==
    IF entity_id = MONITOR_ENTITY_ID THEN MonitorState(self)
    ELSE IF \E e \in Entities : host_states[e].entity_id = entity_id
         THEN host_states[CHOOSE e \in Entities : host_states[e].entity_id = entity_id]
    ELSE NoneValue

\* d.get(key, default) of a dict
DictGet(d, key, default) == IF key \in DOMAIN d THEN d[key] ELSE default

\* str(n) of an int that is not negative
RECURSIVE NatToStr(_)
NatToStr(n) ==
    IF n < 10 THEN CharAt(Digits, n + 1)
    ELSE NatToStr(n \div 10) \o CharAt(Digits, (n % 10) + 1)

\* f"{n}" of an int
IntToStr(n) == IF n < 0 THEN "-" \o NatToStr(0 - n) ELSE NatToStr(n)

\* f"{value}" of a str or of None
FString(value) == IF value.type = "str" THEN value.v ELSE "None"

\* "\n".join(output_lines)
RECURSIVE Join(_)
Join(output_lines) ==
    IF output_lines = <<>> THEN ""
    ELSE IF Len(output_lines) = 1 THEN output_lines[1]
    ELSE output_lines[1] \o "\n" \o Join(Tail(output_lines))

\* raise HomeAssistantError(message): the call fails and returns no response
HomeAssistantError(message) ==
    [ raised |-> TRUE, message |-> message, response |-> NoneValue ]

\* return {"result": formatted_output}
ServiceResponse(formatted_output) ==
    [ raised |-> FALSE, message |-> "", response |-> [result |-> formatted_output] ]

\* A variant that truncates the level: int(battery_level) for round(battery_level)
LowBatteryLineTruncated(device) ==
    LET name == DictGet(device, "name", Str("Unknown"))
        area == DictGet(device, "area", Str(""))
        battery_level == DictGet(device, "battery_level", Num(0))
        battery_level_int == IF battery_level.v >= 0 THEN battery_level.v \div Scale
                             ELSE 0 - ((0 - battery_level.v) \div Scale)
    IN  IF Truthy(area)
        THEN FString(name) \o " (" \o FString(area) \o ") - "
                 \o IntToStr(battery_level_int) \o "%"
        ELSE FString(name) \o " - " \o IntToStr(battery_level_int) \o "%"

\* get_low_battery_devices: the line of one device
LowBatteryLine(device) ==
    LET name == DictGet(device, "name", Str("Unknown"))
        area == DictGet(device, "area", Str(""))
        battery_level == DictGet(device, "battery_level", Num(0))
        battery_level_int == Round(battery_level.v)
    IN  IF Truthy(area)
        THEN FString(name) \o " (" \o FString(area) \o ") - "
                 \o IntToStr(battery_level_int) \o "%"
        ELSE FString(name) \o " - " \o IntToStr(battery_level_int) \o "%"

\* get_devices_without_battery_info: the line of one device
WithoutInfoLine(device) ==
    LET name == DictGet(device, "name", Str("Unknown"))
        area == DictGet(device, "area", Str(""))
    IN  IF Truthy(area)
        THEN FString(name) \o " (" \o FString(area) \o ")"
        ELSE name.v

\* The handler get_low_battery_devices(call) of async_setup_entry
get_low_battery_devices(host_states, self, data) ==
    LET entity_id == DictGet(data, "entity_id", NoneValue)
    IN  IF ~Truthy(entity_id) THEN HomeAssistantError("entity_id is required")
        ELSE LET state == states_get(host_states, self, entity_id.v)
             IN  IF state = NoneValue
                 THEN HomeAssistantError("Entity " \o entity_id.v \o " not found")
                 ELSE LET devices_below ==
                              IF HasAttr(state, ATTR_DEVICES_BELOW_THRESHOLD)
                              THEN state.attributes[ATTR_DEVICES_BELOW_THRESHOLD].v
                              ELSE <<>>
                      IN  ServiceResponse(Join([ i \in 1..Len(devices_below) |->
                                                     LowBatteryLine(devices_below[i]) ]))

\* The handler get_devices_without_battery_info(call) of async_setup_entry
get_devices_without_battery_info_service(host_states, self, data) ==
    LET entity_id == DictGet(data, "entity_id", NoneValue)
    IN  IF ~Truthy(entity_id) THEN HomeAssistantError("entity_id is required")
        ELSE LET state == states_get(host_states, self, entity_id.v)
             IN  IF state = NoneValue
                 THEN HomeAssistantError("Entity " \o entity_id.v \o " not found")
                 ELSE LET devices_without_info ==
                              IF HasAttr(state, ATTR_DEVICES_WITHOUT_BATTERY_INFO)
                              THEN state.attributes[ATTR_DEVICES_WITHOUT_BATTERY_INFO].v
                              ELSE <<>>
                      IN  ServiceResponse(Join([ i \in 1..Len(devices_without_info) |->
                                                     WithoutInfoLine(devices_without_info[i]) ]))

NoCall == [made |-> FALSE]

\* The data of the calls: no entity_id, an empty one, an entity the host has
\* no state of, the sensor, and two other entities of the host.
ServiceData ==
    { <<>>,
      [entity_id |-> Str("")],
      [entity_id |-> Str("sensor.missing")],
      [entity_id |-> Str(MONITOR_ENTITY_ID)],
      [entity_id |-> Str("sensor.door_battery")],
      [entity_id |-> Str("binary_sensor.window")] }

\* The host calls get_low_battery_devices with data.
CallGetLowBatteryDevices ==
    \E data \in ServiceData :
      /\ call' = [ made |-> TRUE, service |-> "get_low_battery_devices", data |-> data,
                   outcome |-> get_low_battery_devices(states, sensor, data) ]
      /\ UNCHANGED <<probe, verdict, monitor, life>>

\* The host calls get_devices_without_battery_info with data.
CallGetDevicesWithoutBatteryInfo ==
    \E data \in ServiceData :
      /\ call' = [ made |-> TRUE, service |-> "get_devices_without_battery_info",
                   data |-> data,
                   outcome |-> get_devices_without_battery_info_service(states, sensor, data) ]
      /\ UNCHANGED <<probe, verdict, monitor, life>>

\* The lists a line of the text is made for hold at most MaxLines devices.
MaxLines == 2

\* The sensors an update may have left: their lists hold display dicts of
\* the host's devices, at most MaxLines each, sorted as sensor.py 221-237
\* sorts them.
ServiceSensors ==
    LET LowDevices ==
            { [name |-> "Door", area |-> Str("Hall"), battery_level |-> 12],
              [name |-> "door", area |-> NoneValue, battery_level |-> 12],
              [name |-> "Front window", area |-> NoneValue, battery_level |-> 5] }
        ListedWithoutInfo ==
            { [name |-> "Door", area |-> Str("Hall")],
              [name |-> "Front window", area |-> NoneValue] }
        SeqsUpTo(S) == UNION { [1..n -> S] : n \in 0..MaxLines }
    IN  { [NewSensor EXCEPT !.devices_below_threshold = below,
                            !.devices_without_battery_info = without,
                            !.state = IF below = <<>> THEN STATE_OK ELSE STATE_PROBLEM,
                            !.devices_without_battery_info_status =
                                IF without = <<>> THEN STATE_OK ELSE STATE_PROBLEM,
                            !.total_devices = Len(below) + Len(without)] :
            below \in { l \in SeqsUpTo(LowDevices) : Sorted(l, LevelSortKeys(l)) = l },
            without \in { l \in SeqsUpTo(ListedWithoutInfo) :
                            Sorted(l, NameSortKeys(l)) = l } }

\* The attributes of an entity of another integration that carries lists of
\* the same keys, its levels being floats: 12.5, 13.5, -0.5, 12.7.
ForeignAttributes ==
    { <<>>,
      [devices_below_threshold |-> List(<<>>),
       devices_without_battery_info |-> List(<<>>)],
      [devices_below_threshold |->
           List(<< [name |-> Str("Cam"), area |-> Str(""), battery_level |-> Num(125)],
                   [name |-> Str("Bell"), battery_level |-> Num(135)] >>),
       devices_without_battery_info |-> List(<< [name |-> Str("Bell")] >>)],
      [devices_below_threshold |->
           List(<< [name |-> Str("Gate"), area |-> Str("Yard"), battery_level |-> Num(-5)],
                   [name |-> Str("Cam"), area |-> NoneValue, battery_level |-> Num(127)] >>)] }

\* --------------------------------------------------------------------------
(* The specifications *)

NoProbe == [entity_id |-> "", state |-> "", attributes |-> <<>>]

Init ==
    /\ probe = NoProbe
    /\ verdict = NotEvaluated
    /\ states \in HostStates
    /\ options \in OptionChoices
    /\ sensor = NewSensor
    /\ scan = NoScan
    /\ fired = {}
    /\ changes = 0
    /\ flows = [f \in Flows |-> NewFlow]
    /\ entries = [e \in Flows |-> NoEntry]
    /\ hass = NewHass
    /\ call = NoCall

Next == StateChanged \/ AsyncUpdate \/ ReloadEntry

Spec == Init /\ [][Next]_vars

\* The classifiers applied to every state of the grid.
InitClassify ==
    /\ probe \in ProbeStates
    /\ verdict = NotEvaluated
    /\ states = [e \in Entities |-> StateOf(e, CHOOSE r \in Readings(e) : r.state = "20")]
    /\ options = [battery_threshold |-> Unset, excluded_devices |-> Unset]
    /\ sensor = NewSensor
    /\ scan = NoScan
    /\ fired = {}
    /\ changes = 0
    /\ flows = [f \in Flows |-> NewFlow]
    /\ entries = [e \in Flows |-> NoEntry]
    /\ hass = NewHass
    /\ call = NoCall

NextClassify == Classify

SpecClassify == InitClassify /\ [][NextClassify]_vars

\* The config flows and the life of the entries they create.
InitEntry ==
    /\ probe = NoProbe
    /\ verdict = NotEvaluated
    /\ states = [e \in Entities |-> StateOf(e, CHOOSE r \in Readings(e) : r.state = "20")]
    /\ options = [battery_threshold |-> Unset, excluded_devices |-> Unset]
    /\ sensor = NewSensor
    /\ scan = NoScan
    /\ fired = {}
    /\ changes = 0
    /\ flows = [f \in Flows |-> NewFlow]
    /\ entries = [e \in Flows |-> NoEntry]
    /\ hass = NewHass
    /\ call = NoCall

NextEntry ==
    \/ StartFlow
    \/ SubmitUser
    \/ SubmitExcludeDevices
    \/ SetupEntry
    \/ UnloadEntry
    \/ ReloadListener
    \/ RemoveEntry

SpecEntry == InitEntry /\ [][NextEntry]_vars

\* The two query services called on a host that holds the sensor's state.
InitService ==
    /\ probe = NoProbe
    /\ verdict = NotEvaluated
    /\ \E attributes \in ForeignAttributes :
         states = [ e \in Entities |->
                      IF EntityTable[e].entity_id = "binary_sensor.window"
                      THEN [ entity_id |-> EntityTable[e].entity_id, state |-> "on",
                             attributes |-> attributes ]
                      ELSE StateOf(e, CHOOSE r \in Readings(e) : r.state = "20") ]
    /\ options = [battery_threshold |-> Unset, excluded_devices |-> Unset]
    /\ sensor \in ServiceSensors
    /\ scan = NoScan
    /\ fired = {}
    /\ changes = 0
    /\ flows = [f \in Flows |-> NewFlow]
    /\ entries = [e \in Flows |-> NoEntry]
    /\ hass = NewHass
    /\ call = NoCall

\* The sensor's update on a host that holds entities of the monitor itself.
InitSelf ==
    /\ probe = NoProbe
    /\ verdict = NotEvaluated
    /\ states \in MonitorHostStates
    /\ options = [battery_threshold |-> Unset, excluded_devices |-> Unset]
    /\ sensor = NewSensor
    /\ scan = NoScan
    /\ fired = {}
    /\ changes = 0
    /\ flows = [f \in Flows |-> NewFlow]
    /\ entries = [e \in Flows |-> NoEntry]
    /\ hass = NewHass
    /\ call = NoCall

NextSelf == AsyncUpdate

SpecSelf == InitSelf /\ [][NextSelf]_vars

NextService == CallGetLowBatteryDevices \/ CallGetDevicesWithoutBatteryInfo

SpecService == InitService /\ [][NextService]_vars

\* --------------------------------------------------------------------------
(* The classification of entity states (SpecClassify) *)

C2_OneEntryPerKeyAtHighestLevel ==
    (scan.ran /\ changes = 0) =>
        LET battery_entities ==
                { e \in Entities : /\ is_battery_device(states[e])
                                   /\ get_device_info(states[e]).device_name.type # "none" }
            KeyOf(e) == UniqueKey(states[e], get_device_info(states[e]))
            LevelOf(e) == get_battery_level(states[e])
            result == scan.all_devices
        IN  /\ { result[i].key : i \in 1..Len(result) } = { KeyOf(e) : e \in battery_entities }
            /\ \A i, j \in 1..Len(result) : result[i].key = result[j].key => i = j
            /\ \A i \in 1..Len(result) :
                 /\ \A e \in battery_entities :
                      KeyOf(e) = result[i].key => LevelOf(e) <= result[i].battery_level
                 /\ \E e \in battery_entities :
                      /\ KeyOf(e) = result[i].key
                      /\ LevelOf(e) = result[i].battery_level
                      /\ states[e].entity_id = result[i].entity_id

\* Two entities of one device report different levels, the second of the
\* table the higher one, and the device's entry names that second entity.
C2_TwoEntitiesOneDevice ==
    /\ scan.ran
    /\ changes = 0
    /\ is_battery_device(states[1])
    /\ is_battery_device(states[2])
    /\ get_battery_level(states[1]) < get_battery_level(states[2])
    /\ \E i \in 1..Len(scan.all_devices) :
         /\ scan.all_devices[i].key = "dev_door"
         /\ scan.all_devices[i].entity_id = states[2].entity_id

\* C3: after an update every device that is not excluded is in exactly one
\* of devices_below_threshold and devices_above_threshold: in the first when
\* its level is strictly below the threshold (20 when the option is unset),
\* in the second otherwise.  Lists are compared as bags of display infos.
C3_PartitionByThreshold ==
    scan.ran =>
        LET threshold == IF options.battery_threshold.type = "unset"
                         THEN DEFAULT_BATTERY_THRESHOLD * Scale
                         ELSE options.battery_threshold.v
            excluded == IF options.excluded_devices.type = "unset"
                        THEN {} ELSE options.excluded_devices.v
            devices == scan.all_devices
            kept == { i \in 1..Len(devices) : devices[i].key \notin excluded }
            Shown(i) == [ name |-> devices[i].name, area |-> devices[i].area,
                          battery_level |-> Round(devices[i].battery_level) ]
            Count(list, x) == Cardinality({ k \in 1..Len(list) : list[k] = x })
        IN  /\ \A i \in kept :
                 /\ Count(sensor.devices_below_threshold, Shown(i)) =
                      Cardinality({ j \in kept : /\ Shown(j) = Shown(i)
                                                 /\ devices[j].battery_level < threshold })
                 /\ Count(sensor.devices_above_threshold, Shown(i)) =
                      Cardinality({ j \in kept : /\ Shown(j) = Shown(i)
                                                 /\ devices[j].battery_level >= threshold })
            /\ Len(sensor.devices_below_threshold) + Len(sensor.devices_above_threshold)
                 = Cardinality(kept)

\* Under the default threshold one device is at 20 exactly and is listed
\* above, while another is listed below.
C3_DeviceAtThreshold ==
    /\ scan.ran
    /\ options.battery_threshold = Unset
    /\ \E i \in 1..Len(scan.all_devices) :
         /\ scan.all_devices[i].battery_level = DEFAULT_BATTERY_THRESHOLD * Scale
         /\ ~IsExcluded(scan.all_devices[i].key, scan.excluded_devices)
         /\ \E k \in 1..Len(sensor.devices_above_threshold) :
              sensor.devices_above_threshold[k].name = scan.all_devices[i].name
    /\ sensor.devices_below_threshold # <<>>

\* C4: the sensor's state is "Problem" exactly when devices_below_threshold
\* is not empty, devices_without_battery_info_status is "Problem" exactly
\* when devices_without_battery_info is not empty, each is "OK" otherwise,
\* and both are "OK" before the first update.
C4_StateFollowsLists ==
    /\ sensor.state = (IF sensor.devices_below_threshold # <<>>
                       THEN STATE_PROBLEM ELSE STATE_OK)
    /\ sensor.devices_without_battery_info_status =
         (IF sensor.devices_without_battery_info # <<>> THEN STATE_PROBLEM ELSE STATE_OK)
    /\ ~scan.ran => /\ sensor.state = STATE_OK
                    /\ sensor.devices_without_battery_info_status = STATE_OK

\* An update left the state at "Problem" and the status at "OK".
C4_ProblemAndOk ==
    /\ scan.ran
    /\ sensor.state = STATE_PROBLEM
    /\ sensor.devices_without_battery_info_status = STATE_OK

C9_ExcludedDevicesLeftOut ==
    scan.ran =>
        LET excluded == IF options.excluded_devices.type = "unset"
                        THEN {} ELSE options.excluded_devices.v
            devices == scan.all_devices
            without == scan.all_devices_without_info
            kept == { i \in 1..Len(devices) : devices[i].key \notin excluded }
            kept_without == { i \in 1..Len(without) : without[i].key \notin excluded }
            dropped == { i \in 1..Len(devices) : devices[i].key \in excluded }
            Shown(d) == [ name |-> d.name, area |-> d.area,
                          battery_level |-> Round(d.battery_level) ]
            Listed(d) == [name |-> d.name, area |-> d.area]
            Count(list, x) == Cardinality({ k \in 1..Len(list) : list[k] = x })
            excluded_entities ==
                { states[e].entity_id : e \in { x \in Entities :
                    UniqueKey(states[x], get_device_info(states[x])) \in excluded } }
        IN  /\ \A k \in 1..Len(sensor.devices_below_threshold) :
                 \E i \in kept : sensor.devices_below_threshold[k] = Shown(devices[i])
            /\ \A k \in 1..Len(sensor.devices_above_threshold) :
                 \E i \in kept : sensor.devices_above_threshold[k] = Shown(devices[i])
            /\ \A k \in 1..Len(sensor.devices_without_battery_info) :
                 \E i \in kept_without :
                    sensor.devices_without_battery_info[k] = Listed(without[i])
            /\ sensor.total_devices = Cardinality(kept) + Cardinality(kept_without)
            /\ Len(sensor.devices_below_threshold) + Len(sensor.devices_above_threshold)
                 = Cardinality(kept)
            /\ Len(sensor.devices_without_battery_info) = Cardinality(kept_without)
            /\ sensor.state = STATE_PROBLEM =>
                 \E i \in kept : devices[i].battery_level < scan.threshold.v
            /\ sensor.devices_without_battery_info_status = STATE_PROBLEM =>
                 kept_without # {}
            /\ \A ev \in fired : ev.entity_id \notin excluded_entities
            /\ \A i \in dropped :
                 Count(sensor.excluded_devices, Listed(devices[i])) =
                   Cardinality({ j \in dropped : Listed(devices[j]) = Listed(devices[i]) })
            /\ Len(sensor.excluded_devices) = Cardinality(dropped)

\* The excluded device is below the threshold and another excluded device
\* has no readable level: the state and the status are "OK", nothing is
\* counted and no event is fired.
C9_ExcludedLowDevice ==
    /\ scan.ran
    /\ options.excluded_devices = List({"dev_door"})
    /\ \E i \in 1..Len(scan.all_devices) :
         /\ scan.all_devices[i].key = "dev_door"
         /\ scan.all_devices[i].battery_level < scan.threshold.v
    /\ sensor.state = STATE_OK
    /\ sensor.excluded_devices # <<>>
    /\ fired = {}

\* C10, as stated: an update fires a low_battery event for each device that
\* is not excluded, is below the threshold in this update and was not below
\* it in the previous update of the same sensor, and for no other device: none
\* for a device that stays below the threshold.
C10_EventsForNewlyLowDevices ==
    scan.ran =>
        LET KeyOfEntity(entity_id) ==
                { scan.all_devices[i].key :
                    i \in { j \in 1..Len(scan.all_devices) :
                              scan.all_devices[j].entity_id = entity_id } }
            low_event_keys ==
                UNION { KeyOfEntity(ev.entity_id) :
                          ev \in { x \in fired : x.event_type = EVENT_BATTERY_LOW } }
        IN  low_event_keys = scan.low_keys \ scan.previous_low_keys


\* --------------------------------------------------------------------------
(* The config flow and the life of the entry (SpecEntry) *)

\* C7, as stated: after any sequence of setup, unload and reload the two
\* services are registered exactly when at least one entry is loaded, an
\* entry being loaded while its sensor platform is set up.
C7_ServicesWhileAnEntryIsLoaded ==
    /\ hass.services \in { {}, SERVICES }
    /\ hass.services = SERVICES <=> hass.platforms # {}

\* C8, as stated: at most one config entry exists, and a flow that reaches
\* the exclude_devices step with the unique id already configured aborts.
C8_OneEntryAndAbort ==
    /\ Cardinality({ e \in Flows : entries[e].exists }) <= 1
    /\ \A f \in Flows : flows[f].already_configured => flows[f].result = "abort"

\* --------------------------------------------------------------------------
(* The classification of entity states, continued (SpecClassify) *)

\* C14, as stated: get_battery_level returns the number of the first of the
\* attributes battery_level, battery, Battery that is present, not None and
\* convertible; when none of the three gives a number it returns the state,
\* if the id contains "battery" and the state is a number in [0, 100], and
\* None otherwise.
C14_FirstUsableAttributeThenState ==
    verdict.evaluated =>
        LET Usable(key) ==
                /\ key \in DOMAIN probe.attributes
                /\ probe.attributes[key] # NoneValue
                /\ Float(probe.attributes[key]) # NoFloat
            from_state == ParseFloat(probe.state)
        IN  verdict.battery_level =
              IF Usable("battery_level") THEN Float(probe.attributes["battery_level"])
              ELSE IF Usable("battery") THEN Float(probe.attributes["battery"])
              ELSE IF Usable("Battery") THEN Float(probe.attributes["Battery"])
              ELSE IF /\ Contains(Lower(probe.entity_id), "battery")
                      /\ from_state # NoFloat
                      /\ 0 <= from_state
                      /\ from_state <= 100 * Scale
                   THEN from_state
              ELSE NoLevel

\* C14, amended: for an entity that should_exclude_entity excludes
\* get_battery_level returns None; for any other entity it returns the
\* number of the first of the attributes battery_level, battery, Battery
\* that is present, not None and convertible, and when none of the three
\* gives a number the state, if the id contains "battery" and the state is a
\* number in [0, 100], and None otherwise.
C14_ExcludedOrFirstUsableAttributeThenState ==
    verdict.evaluated =>
        LET Usable(key) ==
                /\ key \in DOMAIN probe.attributes
                /\ probe.attributes[key] # NoneValue
                /\ Float(probe.attributes[key]) # NoFloat
            from_state == ParseFloat(probe.state)
            excluded ==
                \/ StartsWith(probe.entity_id, "sensor.battery_devices_monitor")
                \/ SplitFirst(probe.entity_id, ".") \in {"automation", "scene", "script"}
        IN  verdict.battery_level =
              IF excluded THEN NoLevel
              ELSE IF Usable("battery_level") THEN Float(probe.attributes["battery_level"])
              ELSE IF Usable("battery") THEN Float(probe.attributes["battery"])
              ELSE IF Usable("Battery") THEN Float(probe.attributes["Battery"])
              ELSE IF /\ Contains(Lower(probe.entity_id), "battery")
                      /\ from_state # NoFloat
                      /\ 0 <= from_state
                      /\ from_state <= 100 * Scale
                   THEN from_state
              ELSE NoLevel

\* The level of an entity came from its second attribute: battery_level does
\* not convert, battery is 19.5 and Battery is "55".
C14_SecondAttributeUsed ==
    /\ verdict.evaluated
    /\ probe.entity_id = "sensor.door_battery"
    /\ probe.attributes = [ battery_level |-> Str("unknown"), battery |-> Num(195),
                            Battery |-> Str("55") ]
    /\ verdict.battery_level = 195

\* C15, as stated: has_battery_but_unavailable holds exactly when one of the
\* known attribute keys is present or the id contains "battery", and no
\* battery level is obtained; no entity state is both a battery device with
\* a level and a battery device without info.
C15_KeyOrIdWithoutLevel ==
    verdict.evaluated =>
        /\ verdict.has_battery_but_unavailable <=>
              /\ \/ \E key \in {"battery_level", "battery", "Battery"} :
                       key \in DOMAIN probe.attributes
                 \/ Contains(Lower(probe.entity_id), "battery")
              /\ verdict.battery_level = NoLevel
        /\ ~(verdict.is_battery_device /\ verdict.has_battery_but_unavailable)

\* C15, amended: has_battery_but_unavailable holds exactly when the entity
\* is not one that should_exclude_entity excludes, one of the known
\* attribute keys is present or the id contains "battery", and no battery
\* level is obtained.  Every entity state is in exactly one of three
\* classes: a battery device with a level (is_battery_device, a level is
\* obtained), a battery device without info (has_battery_but_unavailable),
\* or neither, an excluded entity being in the third.
C15_NotExcludedKeyOrIdWithoutLevel ==
    verdict.evaluated =>
        LET excluded ==
                \/ StartsWith(probe.entity_id, "sensor.battery_devices_monitor")
                \/ SplitFirst(probe.entity_id, ".") \in {"automation", "scene", "script"}
            with_level == verdict.is_battery_device
            without_info == verdict.has_battery_but_unavailable
            unrelated == ~verdict.is_battery_device /\ ~verdict.has_battery_but_unavailable
        IN  /\ without_info <=>
                  /\ ~excluded
                  /\ \/ \E key \in {"battery_level", "battery", "Battery"} :
                           key \in DOMAIN probe.attributes
                     \/ Contains(Lower(probe.entity_id), "battery")
                  /\ verdict.battery_level = NoLevel
            /\ with_level <=> verdict.battery_level # NoLevel
            /\ ~(with_level /\ without_info)
            /\ Cardinality({ c \in {1, 2, 3} :
                               \/ c = 1 /\ with_level
                               \/ c = 2 /\ without_info
                               \/ c = 3 /\ unrelated }) = 1
            /\ excluded => unrelated

\* An entity whose id does not contain "battery" and whose only battery
\* attribute does not convert has been found to be without info.
C15_KeyWithoutLevel ==
    /\ verdict.evaluated
    /\ probe.entity_id = "sensor.door_power"
    /\ probe.attributes = [battery |-> Str("unknown")]
    /\ verdict.has_battery_but_unavailable
    /\ ~verdict.is_battery_device

\* --------------------------------------------------------------------------
(* The two query services (SpecService) *)

\* C11: a call of either query service that carries no entity_id (none, or an
\* empty one) fails with the error "entity_id is required", and a call that
\* names an entity the host has no state of fails with "Entity <id> not
\* found"; a failed call returns no response and leaves the host's states,
\* the sensor, the event bus and the integration's data as they were.
C11_ErrorsLeaveTheHostUnchanged ==
    [][ call' # call =>
          LET outcome == call'.outcome
              given == "entity_id" \in DOMAIN call'.data
              entity_id == IF given THEN call'.data["entity_id"].v ELSE ""
              known == \/ entity_id = MONITOR_ENTITY_ID
                       \/ \E e \in Entities : states[e].entity_id = entity_id
          IN  /\ call'.service \in SERVICES
              /\ entity_id = "" =>
                    outcome.raised /\ outcome.message = "entity_id is required"
              /\ entity_id # "" /\ ~known =>
                    outcome.raised
                      /\ outcome.message = "Entity " \o entity_id \o " not found"
              /\ entity_id # "" /\ known => ~outcome.raised
              /\ outcome.raised =>
                    /\ outcome.response = NoneValue
                    /\ UNCHANGED <<states, options, sensor, scan, fired, entries, hass>>
      ]_vars

\* Both errors have been raised: this state follows a call of
\* get_devices_without_battery_info that named an entity without state.
C11_EntityNotFound ==
    /\ call.made
    /\ call.service = "get_devices_without_battery_info"
    /\ call.outcome.raised
    /\ call.outcome.message = "Entity sensor.missing not found"
    /\ call.outcome.response = NoneValue

\* C12: a call of get_low_battery_devices that names an entity with a state
\* returns {"result": text}; text is empty when the entity's attribute
\* devices_below_threshold is absent or empty, and otherwise has one line per
\* entry of the attribute, in its order, the line of an entry being its name,
\* then " (area)" when its area is not empty, then " - N%" with N an integer
\* nearest to its level.  get_devices_without_battery_info does the same
\* over devices_without_battery_info, a line being the name, then " (area)"
\* when the area is not empty.
C12_OneLinePerDevice ==
    call.made /\ ~call.outcome.raised =>
        LET entity_id == call.data["entity_id"].v
            state == IF entity_id = MONITOR_ENTITY_ID THEN MonitorState(sensor)
                     ELSE states[CHOOSE e \in Entities : states[e].entity_id = entity_id]
            low == call.service = "get_low_battery_devices"
            key == IF low THEN "devices_below_threshold" ELSE "devices_without_battery_info"
            devices == IF key \in DOMAIN state.attributes
                       THEN state.attributes[key].v ELSE <<>>
            text == call.outcome.response.result
            breaks == { i \in 1..Len(text) : CharAt(text, i) = "\n" }
            Break(k) ==
                IF k = 0 THEN 0
                ELSE IF k = Cardinality(breaks) + 1 THEN Len(text) + 1
                ELSE CHOOSE i \in breaks : Cardinality({ j \in breaks : j < i }) = k - 1
            Line(k) == SubSeq(text, Break(k - 1) + 1, Break(k) - 1)
            Area(d) == IF "area" \in DOMAIN d /\ d["area"].type = "str"
                       THEN d["area"].v ELSE ""
            NameAndAreaText(d) == d["name"].v
                           \o (IF Area(d) # "" THEN " (" \o Area(d) \o ")" ELSE "")
            WithLevel(line, d) ==
                LET n == Len(NameAndAreaText(d))
                    N == ParseFloat(SubSeq(line, n + 4, Len(line) - 1))
                    level == d["battery_level"].v
                IN  /\ Len(line) > n + 4
                    /\ SubSeq(line, 1, n + 3) = NameAndAreaText(d) \o " - "
                    /\ CharAt(line, Len(line)) = "%"
                    /\ N # NoFloat
                    /\ N % Scale = 0
                    /\ 2 * (N - level) <= Scale
                    /\ 2 * (level - N) <= Scale
        IN  /\ DOMAIN call.outcome.response = {"result"}
            /\ devices = <<>> => text = ""
            /\ devices # <<>> =>
                  /\ Cardinality(breaks) = Len(devices) - 1
                  /\ \A k \in 1..Len(devices) :
                        IF low THEN WithLevel(Line(k), devices[k])
                        ELSE Line(k) = NameAndAreaText(devices[k])

\* get_low_battery_devices has answered for an entity that lists two devices
\* with the levels 12.5 and 13.5, one of them with an empty area.
C12_TwoLinesRounded ==
    /\ call.made
    /\ call.service = "get_low_battery_devices"
    /\ ~call.outcome.raised
    /\ call.outcome.response = [result |-> "Cam - 12%\nBell - 14%"]

\* --------------------------------------------------------------------------
(* The monitor's own entities (SpecSelf) *)

\* C13: after an update, no entry of the two scans' results and no fired
\* event names an entity of the monitor itself, that is an entity whose id
\* starts with "sensor.battery_devices_monitor", or whose device carries an
\* identifier of the domain battery_devices_monitor, or whose device's name
\* (the user's, else the maker's) contains "Battery Devices Monitor", or,
\* its device giving no name, whose friendly name contains it; and every
\* entry of the sensor's lists displays an entry of a scan's result, none
\* under a name that contains "Battery Devices Monitor".
C13_NeverMonitorsItself ==
    scan.ran =>
        LET Text(value) == IF value.type = "str" THEN value.v ELSE ""
            Own(state) ==
                LET entry == entity_reg_async_get(state.entity_id)
                    device == IF entry.type # "none"
                              THEN device_reg_async_get(Text(entry.device_id))
                              ELSE NoneValue
                    resolved == IF device.type = "none" THEN ""
                                ELSE IF Text(device.name_by_user) # ""
                                     THEN Text(device.name_by_user)
                                ELSE Text(device.name)
                    friendly == IF "friendly_name" \in DOMAIN state.attributes
                                THEN Text(state.attributes["friendly_name"]) ELSE ""
                IN  \/ StartsWith(state.entity_id, "sensor.battery_devices_monitor")
                    \/ /\ device.type # "none"
                       /\ \E identifier \in device.identifiers :
                             identifier[1] = "battery_devices_monitor"
                    \/ Contains(resolved, "Battery Devices Monitor")
                    \/ resolved = "" /\ Contains(friendly, "Battery Devices Monitor")
            own == { states[e].entity_id : e \in { x \in Entities : Own(states[x]) } }
            with_level == { scan.all_devices[i] : i \in 1..Len(scan.all_devices) }
            without_info == { scan.all_devices_without_info[i] :
                                i \in 1..Len(scan.all_devices_without_info) }
            Listed(list) == { list[i] : i \in 1..Len(list) }
            Displays(entry, items) ==
                /\ ~Contains(entry.name, "Battery Devices Monitor")
                /\ \E d \in items : d.name = entry.name /\ d.area = entry.area
        IN  /\ \A d \in with_level : d.entity_id \notin own
            /\ \A d \in without_info : d.entity_id \notin own
            /\ \A event \in fired : event.entity_id \notin own
            /\ \A entry \in Listed(sensor.devices_below_threshold)
                              \cup Listed(sensor.devices_above_threshold) :
                  Displays(entry, with_level)
            /\ \A entry \in Listed(sensor.excluded_devices) : Displays(entry, with_level)
            /\ \A entry \in Listed(sensor.devices_without_battery_info) :
                  Displays(entry, without_info)

\* An update has run on a host that holds an entity of the monitor's device
\* with a level of 15 and an entity without level whose friendly name
\* contains "Battery Devices Monitor", and has listed the door and fired
\* the event of its low battery.
C13_OwnEntitiesInTheHost ==
    /\ scan.ran
    /\ \E e \in Entities :
          states[e].entity_id = "sensor.hub_battery" /\ states[e].state = "15"
    /\ \E e \in Entities :
          states[e].entity_id = "sensor.kiosk_battery" /\ states[e].state = "unavailable"
    /\ Len(sensor.devices_below_threshold) = 1
    /\ sensor.devices_without_battery_info = <<>>
    /\ \E event \in fired : event.entity_id = "sensor.door_battery"

=============================================================================
